---- MODULE Spec2Model ----
(***************************************************************************)
(* Model of aws-secretsmanager-cache: SecretCache, GetSecretStringBuilder, *)
(* CacheItem and CacheConfig.                                              *)
(*                                                                         *)
(* Time is counted in quanta of one hour (3600000000000 ns): the code only *)
(* adds a TTL to a clock reading and compares two instants, so the quantum *)
(* does not change any decision.                                           *)
(***************************************************************************)
EXTENDS Integers, Sequences, FiniteSets, TLC

VARIABLES config, cache, now, pc, builder, result, calls, remoteReq, remoteResp,
          pre, sentAt, accessed, inflight, lastFetch, lastSet, probe

vars == <<config, cache, now, pc, builder, result, calls, remoteReq, remoteResp,
          pre, sentAt, accessed, inflight, lastFetch, lastSet, probe>>

----------------------------------------------------------------------------
(* Bounds of the model *)

MaxNow == 2

MaxTtl == 1

MaxCacheSize == 2

\* the largest value of the type of an expiry instant: u128::MAX, scaled to
\* the hours of the model and larger than every now + TTL that Spec reaches
U128Max == 7

SecretIds == {"svc/a", "svc/b", "svc/c"}

SecretValues == {"x1", "x2"}

SdkErrors == {"ResourceNotFoundException", "AccessDeniedException"}

----------------------------------------------------------------------------
(* config.rs *)

DEFAULT_MAX_CACHE_SIZE == 1024

\* one hour, in quanta of one hour
DEFAULT_CACHE_ITEM_TTL == 1

DEFAULT_VERSION_STAGE == "AWSCURRENT"

CacheConfigNew ==
    [max_cache_size |-> DEFAULT_MAX_CACHE_SIZE,
     cache_item_ttl |-> DEFAULT_CACHE_ITEM_TTL,
     version_stage  |-> DEFAULT_VERSION_STAGE]

\* variant: the setter starts from a default configuration
SetMaxCacheSizeFromDefault(c, n) == [CacheConfigNew EXCEPT !.max_cache_size = n]

SetMaxCacheSize(c, n) == [c EXCEPT !.max_cache_size = n]

SetCacheItemTtl(c, d) == [c EXCEPT !.cache_item_ttl = d]

----------------------------------------------------------------------------
(* cache_item.rs *)

\* variant: the TTL is counted twice
CacheItemNewLongLived(value, cache_item_ttl, t) ==
    [value |-> value,
     ttl |-> (t + cache_item_ttl + cache_item_ttl) % (U128Max + 1)]

\* the u128 addition of CacheItem::new overflows
AddOverflows(cache_item_ttl, t) == t + cache_item_ttl > U128Max

\* CacheItem::new in a build without overflow checks: the addition wraps
CacheItemNew(value, cache_item_ttl, t) ==
    [value |-> value, ttl |-> (t + cache_item_ttl) % (U128Max + 1)]

\* the item when CacheItem::new has panicked
PanickedItem == [value |-> "attempt to add with overflow", ttl |-> 0]

\* CacheItem::new in a build with overflow checks: the addition panics
CacheItemNewChecked(value, cache_item_ttl, t) ==
    IF AddOverflows(cache_item_ttl, t)
    THEN PanickedItem
    ELSE CacheItemNew(value, cache_item_ttl, t)

\* variant: expired from the expiry instant itself
IsExpiredAtOrAfter(item, t) == t >= item.ttl

IsExpired(item, t) == t > item.ttl

----------------------------------------------------------------------------
(* lru::LruCache as used by cache.rs: order is most-recently-used first *)

Without(s, k) == SelectSeq(s, LAMBDA x : x # k)

Keys(c) == DOMAIN c.map

LruNew(cap) == [map |-> [x \in {} |-> 0], cap |-> cap, order |-> <<>>]

\* variant: a lookup that does not promote (peek)
LruGetNoPromote(c, k) == c

\* get: promote on a hit
LruGet(c, k) ==
    IF k \in Keys(c)
    THEN [c EXCEPT !.order = <<k>> \o Without(c.order, k)]
    ELSE c

\* variant: evicts from the wrong end of the list
LruPutEvictMru(c, k, item) ==
    IF k \in Keys(c)
    THEN [c EXCEPT !.order = <<k>> \o Without(c.order, k),
                   !.map = [x \in Keys(c) |-> IF x = k THEN item ELSE c.map[x]]]
    ELSE IF Len(c.order) >= c.cap
    THEN LET victim == c.order[1]
             kept == (Keys(c) \ {victim}) \cup {k}
         IN  [c EXCEPT !.order = <<k>> \o Tail(c.order),
                       !.map = [x \in kept |-> IF x = k THEN item ELSE c.map[x]]]
    ELSE [c EXCEPT !.order = <<k>> \o c.order,
                   !.map = [x \in Keys(c) \cup {k} |->
                                IF x = k THEN item ELSE c.map[x]]]

\* variant: an unbounded map
LruPutNoEvict(c, k, item) ==
    [c EXCEPT !.order = <<k>> \o Without(c.order, k),
              !.map = [x \in Keys(c) \cup {k} |-> IF x = k THEN item ELSE c.map[x]]]

\* variant: a full list is popped before the key is looked up
LruPutPopsFirst(c, k, item) ==
    IF Len(c.order) >= c.cap
    THEN LET victim == c.order[Len(c.order)]
             kept == (Keys(c) \ {victim}) \cup {k}
         IN  [c EXCEPT !.order = <<k>> \o Without(SubSeq(c.order, 1,
                                                         Len(c.order) - 1), k),
                       !.map = [x \in kept |-> IF x = k THEN item ELSE c.map[x]]]
    ELSE [c EXCEPT !.order = <<k>> \o Without(c.order, k),
                   !.map = [x \in Keys(c) \cup {k} |->
                                IF x = k THEN item ELSE c.map[x]]]

\* put: overwrite and promote, or insert at the head after popping the tail of
\* a full list
LruPut(c, k, item) ==
    IF k \in Keys(c)
    THEN [c EXCEPT !.order = <<k>> \o Without(c.order, k),
                   !.map = [x \in Keys(c) |-> IF x = k THEN item ELSE c.map[x]]]
    ELSE IF Len(c.order) >= c.cap
    THEN LET victim == c.order[Len(c.order)]
             kept == (Keys(c) \ {victim}) \cup {k}
         IN  [c EXCEPT !.order = <<k>> \o SubSeq(c.order, 1, Len(c.order) - 1),
                       !.map = [x \in kept |-> IF x = k THEN item ELSE c.map[x]]]
    ELSE [c EXCEPT !.order = <<k>> \o c.order,
                   !.map = [x \in Keys(c) \cup {k} |->
                                IF x = k THEN item ELSE c.map[x]]]

----------------------------------------------------------------------------
(* cache.rs *)

\* NonZeroUsize::new(max_cache_size).unwrap_or(1)
NewCacheCapacity(max_cache_size) ==
    IF max_cache_size = 0 THEN 1 ELSE max_cache_size

NewCache(cfg) == LruNew(NewCacheCapacity(cfg.max_cache_size))

NoResult == [value |-> "", kind |-> "none", source |-> "none"]

NoMessage == [value |-> "", kind |-> "none"]

NoRequest == [version_stage |-> "", secret_id |-> ""]

NoBuilder == [secret_id |-> "", force_refresh |-> FALSE]

GetSecretStringBuilderNew(secret_id) ==
    [secret_id |-> secret_id, force_refresh |-> FALSE]

\* the first half of send(): TRUE when the value is returned from the cache
\* variant: without the is_expired() test
ServesFromCacheIgnoringExpiry(c, b, t) ==
    /\ ~b.force_refresh
    /\ b.secret_id \in Keys(c)

\* variant: without the force_refresh test
ServesFromCacheIgnoringForce(c, b, t) ==
    /\ b.secret_id \in Keys(c)
    /\ ~IsExpired(c.map[b.secret_id], t)

ServesFromCache(c, b, t) ==
    /\ ~b.force_refresh
    /\ b.secret_id \in Keys(c)
    /\ ~IsExpired(c.map[b.secret_id], t)

\* variant: a hit extends the expiry of the entry
AfterLookupSliding(c, b) ==
    IF b.force_refresh \/ b.secret_id \notin Keys(c)
    THEN c
    ELSE LET g == LruGet(c, b.secret_id)
         IN  [g EXCEPT !.map = [x \in Keys(c) |->
                                  IF x = b.secret_id
                                  THEN [value |-> c.map[x].value,
                                        ttl |-> c.map[x].ttl + 1]
                                  ELSE c.map[x]]]

\* the cache after the lookup of the first half of send()
AfterLookup(c, b) ==
    IF b.force_refresh THEN c ELSE LruGet(c, b.secret_id)

\* fetch_secret(): what the remote's response becomes
\* variant: the error is replaced by one of the cache
FetchSecretWrapErr(resp) ==
    IF resp.kind = "Ok"
    THEN IF resp.value = "None"
         THEN [value |-> "", kind |-> "panic"]
         ELSE [value |-> resp.value, kind |-> "Ok"]
    ELSE [value |-> "CacheError", kind |-> "Err"]

FetchSecret(resp) ==
    IF resp.kind = "Ok"
    THEN IF resp.value = "None"
         THEN [value |-> "", kind |-> "panic"]
         ELSE [value |-> resp.value, kind |-> "Ok"]
    ELSE [value |-> resp.value, kind |-> "Err"]

\* the second half of send(): the cache after the match on fetch_secret()
\* variant: a failed fetch drops the entry of the id
AfterFetchDropOnErr(c, b, cfg, fetched, t) ==
    IF fetched.kind = "Ok"
    THEN LruPut(c, b.secret_id,
                CacheItemNew(fetched.value, cfg.cache_item_ttl, t))
    ELSE IF fetched.kind = "Err" /\ b.secret_id \in Keys(c)
    THEN [c EXCEPT !.order = Without(c.order, b.secret_id),
                   !.map = [x \in Keys(c) \ {b.secret_id} |-> c.map[x]]]
    ELSE c

\* variant: an entry that is resident is not overwritten
AfterFetchKeepExisting(c, b, cfg, fetched, t) ==
    IF fetched.kind = "Ok" /\ b.secret_id \in Keys(c)
    THEN LruGet(c, b.secret_id)
    ELSE IF fetched.kind = "Ok"
    THEN LruPut(c, b.secret_id,
                CacheItemNew(fetched.value, cfg.cache_item_ttl, t))
    ELSE c

\* variant: a successful fetch first drops the entries that have expired
AfterFetchPurgesExpired(c, b, cfg, fetched, t) ==
    IF fetched.kind = "Ok"
    THEN LET live == {x \in Keys(c) : ~IsExpired(c.map[x], t)}
             kept == [c EXCEPT !.order = SelectSeq(c.order,
                                             LAMBDA x : x \in live),
                               !.map = [x \in live |-> c.map[x]]]
         IN  LruPut(kept, b.secret_id,
                    CacheItemNew(fetched.value, cfg.cache_item_ttl, t))
    ELSE c

AfterFetch(c, b, cfg, fetched, t) ==
    IF fetched.kind = "Ok"
    THEN LruPut(c, b.secret_id,
                CacheItemNew(fetched.value, cfg.cache_item_ttl, t))
    ELSE c

----------------------------------------------------------------------------
(* ghost: the ids in the order of their last access, most recent first *)

Touch(s, k) == <<k>> \o Without(s, k)

\* variant: the two arguments of the request are exchanged
FetchRequestSwapped(b, cfg) ==
    [version_stage |-> b.secret_id, secret_id |-> cfg.version_stage]

\* fetch_secret(): the request made to the remote
FetchRequest(b, cfg) ==
    [version_stage |-> cfg.version_stage, secret_id |-> b.secret_id]

\* variant: room for the new entry is made before the await
AfterCancelEvicts(c) ==
    IF Len(c.order) >= c.cap
    THEN [c EXCEPT !.order = SubSeq(c.order, 1, Len(c.order) - 1),
                   !.map = [x \in Keys(c) \ {c.order[Len(c.order)]} |-> c.map[x]]]
    ELSE c

\* the cache after the future of send() is dropped at its await
AfterCancel(c) == c

\* the value send() returns after fetch_secret() has returned
SendResult(fetched) ==
    [value |-> fetched.value, kind |-> fetched.kind, source |-> "remote"]

----------------------------------------------------------------------------
(* State                                                                   *)
(*   config      the CacheConfig being built, then owned by the cache      *)
(*   cache       SecretCache.cache                                         *)
(*   now         the system clock                                          *)
(*   pc          "config": no cache yet; "idle": no builder; "built": a    *)
(*               builder borrows the cache; "fetching": send() is awaiting *)
(*               the remote; "panicked": send() has panicked               *)
(*   builder     the GetSecretStringBuilder                                *)
(*   result      what the last send() of the builder returned              *)
(*   calls       remote calls made by the last send() of the builder       *)
(*   remoteReq   the request of that call, remoteResp its response         *)
(*   pre         the cache when the last send() started                    *)
(*   sentAt      the clock when the last send() started, -1 when none has  *)
(*   accessed    the resident ids by last access, most recent first        *)
(*   inflight    the ids of the remote calls that await their response     *)
(*   lastFetch   for each resident id, the value and the clock of the last *)
(*               successful fetch_secret() for it                          *)
(*   lastSet     the last argument of each setter of the CacheConfig being *)
(*               built, -1 when the setter was not called                  *)
(*   probe       a CacheItem::new call on its own (SpecItem)               *)
(***************************************************************************)

NoCache == LruNew(0)

NoSetterCalled == [max_cache_size |-> -1, cache_item_ttl |-> -1]

NoFetch == [x \in {} |-> 0]

NoItem == [value |-> "", ttl |-> 0]

NoProbe == [clock |-> 0, small |-> 0, large |-> 0, stage |-> "off",
            small_item |-> NoItem, large_item |-> NoItem]

Init ==
    /\ config = CacheConfigNew
    /\ cache = NoCache
    /\ now = 0
    /\ pc = "config"
    /\ builder = NoBuilder
    /\ result = NoResult
    /\ calls = 0
    /\ remoteReq = NoRequest
    /\ remoteResp = NoMessage
    /\ pre = NoCache
    /\ sentAt = -1
    /\ accessed = <<>>
    /\ inflight = <<>>
    /\ lastFetch = NoFetch
    /\ lastSet = NoSetterCalled
    /\ probe = NoProbe

\* CacheConfig::max_cache_size
ConfigMaxCacheSize(n) ==
    /\ pc = "config"
    /\ config' = SetMaxCacheSize(config, n)
    /\ lastSet' = [lastSet EXCEPT !.max_cache_size = n]
    /\ UNCHANGED <<cache, now, pc, builder, result, calls, remoteReq, remoteResp,
                   pre, sentAt, accessed,
                   inflight, lastFetch, probe>>

\* CacheConfig::cache_item_ttl
ConfigCacheItemTtl(d) ==
    /\ pc = "config"
    /\ config' = SetCacheItemTtl(config, d)
    /\ lastSet' = [lastSet EXCEPT !.cache_item_ttl = d]
    /\ UNCHANGED <<cache, now, pc, builder, result, calls, remoteReq, remoteResp,
                   pre, sentAt, accessed,
                   inflight, lastFetch, probe>>

\* SecretCache::new
SecretCacheNew ==
    /\ pc = "config"
    /\ config' = CacheConfigNew
    /\ lastSet' = NoSetterCalled
    /\ cache' = NewCache(CacheConfigNew)
    /\ pre' = NewCache(CacheConfigNew)
    /\ pc' = "idle"
    /\ UNCHANGED <<now, builder, result, calls, remoteReq, remoteResp, sentAt,
                   accessed,
                   inflight, lastFetch, probe>>

\* SecretCache::new_with_config
SecretCacheNewWithConfig ==
    /\ pc = "config"
    /\ cache' = NewCache(config)
    /\ pre' = NewCache(config)
    /\ lastSet' = NoSetterCalled
    /\ pc' = "idle"
    /\ UNCHANGED <<config, now, builder, result, calls, remoteReq, remoteResp,
                   sentAt, accessed,
                   inflight, lastFetch, probe>>

\* the system clock advances
Tick ==
    /\ pc \in {"idle", "built", "fetching"}
    /\ now < MaxNow
    /\ now' = now + 1
    /\ UNCHANGED <<config, cache, pc, builder, result, calls, remoteReq,
                   remoteResp, pre, sentAt, accessed,
                   inflight, lastFetch, lastSet, probe>>

\* variant: a builder that shares the cache instead of borrowing it mutably
GetSecretStringShared(id) ==
    /\ pc \in {"idle", "fetching"}
    /\ builder' = GetSecretStringBuilderNew(id)
    /\ pc' = "built"
    /\ UNCHANGED <<config, cache, now, result, calls, remoteReq, remoteResp, pre,
                   sentAt, accessed, inflight, lastFetch, lastSet, probe>>

\* SecretCache::get_secret_string: the builder takes the &mut borrow of the
\* cache, so none can be made while another is alive
GetSecretString(id) ==
    /\ pc = "idle"
    /\ builder' = GetSecretStringBuilderNew(id)
    /\ pc' = "built"
    /\ UNCHANGED <<config, cache, now, result, calls, remoteReq, remoteResp, pre,
                   sentAt, accessed,
                   inflight, lastFetch, lastSet, probe>>

\* GetSecretStringBuilder::force_refresh
ForceRefresh ==
    /\ pc = "built"
    /\ ~builder.force_refresh
    /\ builder' = [builder EXCEPT !.force_refresh = TRUE]
    /\ result' = NoResult
    /\ calls' = 0
    /\ remoteReq' = NoRequest
    /\ remoteResp' = NoMessage
    /\ pre' = cache
    /\ sentAt' = -1
    /\ UNCHANGED <<config, cache, now, pc, accessed,
                   inflight, lastFetch, lastSet, probe>>

\* the builder is dropped and the borrow of the cache ends
DropBuilder ==
    /\ pc = "built"
    /\ builder' = NoBuilder
    /\ result' = NoResult
    /\ calls' = 0
    /\ remoteReq' = NoRequest
    /\ remoteResp' = NoMessage
    /\ pre' = cache
    /\ sentAt' = -1
    /\ pc' = "idle"
    /\ UNCHANGED <<config, cache, now, accessed,
                   inflight, lastFetch, lastSet, probe>>

\* ghost: the lookup of a plain send() that finds the id is an access
AccessedAfterLookup ==
    IF ~builder.force_refresh /\ builder.secret_id \in Keys(cache)
    THEN Touch(accessed, builder.secret_id)
    ELSE accessed

\* send(), served from the cache
SendFromCache ==
    /\ pc = "built"
    /\ ServesFromCache(cache, builder, now)
    /\ pre' = cache
    /\ sentAt' = now
    /\ cache' = AfterLookup(cache, builder)
    /\ accessed' = AccessedAfterLookup
    /\ result' = [value |-> cache.map[builder.secret_id].value, kind |-> "Ok",
                  source |-> "cache"]
    /\ calls' = 0
    /\ remoteReq' = NoRequest
    /\ remoteResp' = NoMessage
    /\ UNCHANGED <<config, now, pc, builder,
                   inflight, lastFetch, lastSet, probe>>

\* send(), up to the await of fetch_secret()
SendFetch ==
    /\ pc = "built"
    /\ ~ServesFromCache(cache, builder, now)
    /\ pre' = cache
    /\ sentAt' = now
    /\ cache' = AfterLookup(cache, builder)
    /\ accessed' = AccessedAfterLookup
    /\ result' = NoResult
    /\ calls' = 1
    /\ remoteReq' = FetchRequest(builder, config)
    /\ inflight' = Append(inflight, builder.secret_id)
    /\ remoteResp' = NoMessage
    /\ pc' = "fetching"
    /\ UNCHANGED <<config, now, builder,
                   lastFetch, lastSet, probe>>

\* send(), from the response of the remote to its return
Complete(resp) ==
    LET fetched == FetchSecret(resp)
    IN  /\ remoteResp' = resp
        /\ cache' = AfterFetch(cache, builder, config, fetched, now)
        /\ accessed' = IF fetched.kind = "Ok"
                       THEN SelectSeq(Touch(accessed, builder.secret_id),
                                      LAMBDA x : x \in Keys(cache'))
                       ELSE accessed
        /\ lastFetch' = IF fetched.kind = "Ok"
                        THEN [k \in Keys(cache') |->
                                IF k = builder.secret_id
                                THEN [value |-> fetched.value, at |-> now]
                                ELSE lastFetch[k]]
                        ELSE lastFetch
        /\ inflight' = Without(inflight, builder.secret_id)
        /\ result' = SendResult(fetched)
        /\ pc' = IF fetched.kind = "panic" THEN "panicked" ELSE "built"
        /\ UNCHANGED <<config, now, builder, calls, remoteReq, pre, sentAt,
                   lastSet, probe>>

\* the caller drops the future of send() while it awaits the remote
Cancel ==
    /\ pc = "fetching"
    /\ cache' = AfterCancel(cache)
    /\ inflight' = Without(inflight, builder.secret_id)
    /\ result' = [value |-> "", kind |-> "cancelled", source |-> "none"]
    /\ pc' = "built"
    /\ UNCHANGED <<config, now, builder, calls, remoteReq, remoteResp, pre,
                   sentAt, accessed, lastFetch, lastSet, probe>>

\* the remote returns a secret string
RemoteOk(v) ==
    /\ pc = "fetching"
    /\ Complete([value |-> v, kind |-> "Ok"])

\* the remote returns a secret that has no string value
RemoteNoString ==
    /\ pc = "fetching"
    /\ Complete([value |-> "None", kind |-> "Ok"])

\* the remote fails
RemoteErr(e) ==
    /\ pc = "fetching"
    /\ Complete([value |-> e, kind |-> "Err"])

Next ==
    \/ \E n \in 0..MaxCacheSize : ConfigMaxCacheSize(n)
    \/ \E d \in 0..MaxTtl : ConfigCacheItemTtl(d)
    \/ SecretCacheNew
    \/ SecretCacheNewWithConfig
    \/ Tick
    \/ \E id \in SecretIds : GetSecretString(id)
    \/ ForceRefresh
    \/ DropBuilder
    \/ SendFromCache
    \/ SendFetch
    \/ Cancel
    \/ \E v \in SecretValues : RemoteOk(v)
    \/ RemoteNoString
    \/ \E e \in SdkErrors : RemoteErr(e)

Spec == Init /\ [][Next]_vars

-----------------------------------------------------------------------------
(* CacheItem::new on its own: two items made at one clock reading, from any *)
(* two TTLs of the type                                                      *)

InitItem ==
    /\ config = CacheConfigNew
    /\ cache = NoCache
    /\ now = 0
    /\ pc = "config"
    /\ builder = NoBuilder
    /\ result = NoResult
    /\ calls = 0
    /\ remoteReq = NoRequest
    /\ remoteResp = NoMessage
    /\ pre = NoCache
    /\ sentAt = -1
    /\ accessed = <<>>
    /\ inflight = <<>>
    /\ lastFetch = NoFetch
    /\ lastSet = NoSetterCalled
    /\ \E t \in 0..U128Max, a \in 0..U128Max, b \in 0..U128Max :
          /\ a <= b
          /\ probe = [clock |-> t, small |-> a, large |-> b, stage |-> "input",
                      small_item |-> NoItem, large_item |-> NoItem]

\* CacheItem::new, twice, in a build without overflow checks
CacheItemNewRelease ==
    /\ probe.stage = "input"
    /\ probe' = [probe EXCEPT
                    !.stage = "made",
                    !.small_item = CacheItemNew("x1", probe.small, probe.clock),
                    !.large_item = CacheItemNew("x1", probe.large, probe.clock)]
    /\ UNCHANGED <<config, cache, now, pc, builder, result, calls, remoteReq,
                   remoteResp, pre, sentAt, accessed, inflight, lastFetch,
                   lastSet>>

\* CacheItem::new, twice, in a build with overflow checks
CacheItemNewDebug ==
    /\ probe.stage = "input"
    /\ probe' = [probe EXCEPT
                    !.stage = IF AddOverflows(probe.large, probe.clock)
                              THEN "panic" ELSE "made",
                    !.small_item =
                        CacheItemNewChecked("x1", probe.small, probe.clock),
                    !.large_item =
                        CacheItemNewChecked("x1", probe.large, probe.clock)]
    /\ UNCHANGED <<config, cache, now, pc, builder, result, calls, remoteReq,
                   remoteResp, pre, sentAt, accessed, inflight, lastFetch,
                   lastSet>>

NextItem ==
    \/ CacheItemNewRelease
    \/ CacheItemNewDebug

SpecItem == InitItem /\ [][NextItem]_vars

----------------------------------------------------------------------------
(* Vocabulary of the properties *)

\* a send() of the builder has started
SendStarted == sentAt >= 0

\* a send() of the builder has returned
SendReturned == pc = "built" /\ result.kind \in {"Ok", "Err"}

\* the future of the last send() of the builder was dropped at its await
SendCancelled == pc = "built" /\ result.kind = "cancelled"

ReqId == builder.secret_id

\* the requested id was resident when the send() started
WasResident == ReqId \in Keys(pre)

\* the ids that left the store during the last send()
Evicted == Keys(pre) \ Keys(cache)

\* every id resident before the send() is resident after it with the same value
SameIdsAndValues ==
    /\ Keys(cache) = Keys(pre)
    /\ \A k \in Keys(pre) : cache.map[k].value = pre.map[k].value

\* what a plain send() for id would return at clock t, "remote" if it would fetch
PlainSend(c, id, t) ==
    IF ServesFromCache(c, GetSecretStringBuilderNew(id), t)
    THEN c.map[id].value
    ELSE "remote"

----------------------------------------------------------------------------
\* C1: a plain send() for an id that is resident with an entry whose expiry
\* instant is not in the past returns exactly the stored value and makes no
\* call to the remote.
C1_HitServedWithoutRemote ==
    (SendStarted /\ ~builder.force_refresh /\ WasResident
        /\ pre.map[ReqId].ttl >= sentAt)
    => /\ pc = "built"
       /\ result = [value |-> pre.map[ReqId].value, kind |-> "Ok",
                    source |-> "cache"]
       /\ calls = 0
       /\ remoteReq = NoRequest

C1_Witness ==
    /\ SendReturned /\ ~builder.force_refresh /\ WasResident
    /\ pre.map[ReqId].ttl = sentAt
    /\ Cardinality(Keys(pre)) = 2
    /\ result.source = "cache"

\* C2: a plain send() for an id whose resident entry has its expiry instant in
\* the past is not served from the store: the remote is called for that id.
C2_ExpiredNeverServed ==
    (SendStarted /\ ~builder.force_refresh /\ WasResident
        /\ pre.map[ReqId].ttl < sentAt)
    => /\ result.source # "cache"
       /\ calls = 1
       /\ remoteReq.secret_id = ReqId

C2_Witness ==
    /\ SendReturned /\ ~builder.force_refresh /\ WasResident
    /\ pre.map[ReqId].ttl < sentAt
    /\ result.kind = "Ok" /\ result.source = "remote"
    /\ result.value # pre.map[ReqId].value

\* C3: a send() with force_refresh calls the remote whether the id is absent,
\* fresh or expired, and when the fetch succeeds the entry of the id holds the
\* fetched value, which a plain send() returns at that clock reading and at
\* every later one up to cache_item_ttl after it.
C3_ForceState ==
    (SendStarted /\ builder.force_refresh)
    => /\ calls = 1
       /\ remoteReq.secret_id = ReqId
       /\ result.source # "cache"
       /\ (result.kind = "Ok"
            => /\ result.value = remoteResp.value
               /\ ReqId \in Keys(cache)
               /\ cache.map[ReqId].value = result.value)

C3_ForceStep ==
    (pc = "fetching" /\ builder.force_refresh /\ result'.kind = "Ok")
    => \A t \in now'..(now' + config.cache_item_ttl) :
           PlainSend(cache', ReqId, t) = result'.value

C3_ForceRefreshFetchesAndOverwrites ==
    [](C3_ForceState) /\ [][C3_ForceStep]_vars

C3_Witness ==
    /\ SendReturned /\ builder.force_refresh /\ WasResident
    /\ pre.map[ReqId].ttl >= sentAt
    /\ result.kind = "Ok"
    /\ result.value # pre.map[ReqId].value
    /\ cache.map[ReqId].value = result.value

\* C4: when the remote fails during a send(), plain or forced, the resident ids
\* and the value under each id are the same after the send() as before it.
C4_FailureKeepsIdsAndValues ==
    (SendReturned /\ result.kind = "Err") => SameIdsAndValues

C4_Witness ==
    /\ SendReturned /\ result.kind = "Err"
    /\ WasResident /\ pre.map[ReqId].ttl < sentAt
    /\ ReqId \in Keys(cache)

\* C5: the store never holds more than max_cache_size ids, a max_cache_size of
\* 0 counting as 1.
MaxEntries == IF config.max_cache_size = 0 THEN 1 ELSE config.max_cache_size

C5_CapacityBound ==
    /\ Cardinality(Keys(cache)) <= MaxEntries
    /\ Len(cache.order) = Cardinality(Keys(cache))

C5_Witness ==
    /\ SendReturned /\ result.kind = "Ok"
    /\ config.max_cache_size = 0
    /\ Evicted # {}
    /\ Cardinality(Keys(cache)) = 1

\* C6: when a successful fetch evicts an id, the evicted id is the resident id
\* accessed least recently, an access being the lookup of a plain send() that
\* finds the id or the write of a successful fetch.
C6_Step ==
    \A k \in Keys(cache) \ Keys(cache') :
        /\ pc = "fetching" /\ result'.kind = "Ok"
        /\ ReqId \notin Keys(cache)
        /\ Cardinality(Keys(cache)) = cache.cap
        /\ k = accessed[Len(accessed)]
        /\ Keys(cache) \ Keys(cache') = {k}

C7_SuccessOrFailureOnly ==
    /\ pc # "panicked"
    /\ SendReturned
        => \/ /\ result.kind = "Ok"
              /\ ReqId \in Keys(cache)
              /\ cache.map[ReqId].value = result.value
           \/ /\ result.kind = "Err"
              /\ SameIdsAndValues

\* C8 as claimed: a send() that fails leaves the store as it was, the
\* least-recently-used order included.
C8_FailureLeavesStoreUntouched ==
    (SendReturned /\ result.kind = "Err") => cache = pre

\* C8: a send() that fails leaves the resident ids, their values and their
\* expiry instants as they were, and the least-recently-used order too except
\* that a plain send() for a resident id has made that id the most recently
\* used.
C8_FailureKeepsEntries ==
    (SendReturned /\ result.kind = "Err")
    => /\ cache.cap = pre.cap
       /\ cache.map = pre.map
       /\ cache.order = IF ~builder.force_refresh /\ WasResident
                        THEN <<ReqId>> \o Without(pre.order, ReqId)
                        ELSE pre.order

C8_Witness ==
    /\ SendReturned /\ result.kind = "Err"
    /\ ~builder.force_refresh /\ WasResident
    /\ pre.map[ReqId].ttl < sentAt
    /\ cache.order # pre.order

\* C9: with cache_item_ttl = 0 a plain send() for a resident id is never served
\* from the store, at whatever clock reading it happens.
C9_ZeroTtlNeverServes ==
    (SendStarted /\ config.cache_item_ttl = 0 /\ ~builder.force_refresh
        /\ WasResident)
    => /\ result.source # "cache"
       /\ calls = 1

\* C10: a send() calls the remote at most once, and when that call fails the
\* send() returns that failure.
C10_FailureReturnedAsIs ==
    /\ calls <= 1
    /\ remoteResp.kind = "Err"
        => /\ pc = "built"
           /\ result = [value |-> remoteResp.value, kind |-> "Err",
                        source |-> "remote"]
           /\ calls = 1

C10_Witness ==
    /\ SendReturned
    /\ remoteResp = [value |-> "AccessDeniedException", kind |-> "Err"]
    /\ result.value = "AccessDeniedException"

----------------------------------------------------------------------------
\* C11 as claimed: while a fetch for an id is in flight, a second caller can
\* start a send() for the same id on the same cache, so that two fetches for
\* the id are in flight.
C11_SecondCallerCanStart ==
    pc = "fetching" => ENABLED GetSecretString(ReqId)

\* C11: requests are not deduplicated, but the sends of one cache run one after
\* the other: while a builder is alive no other caller can make one, and at
\* most one remote call is in flight.
C11_OneFetchInFlight ==
    /\ Len(inflight) <= 1
    /\ pc \in {"built", "fetching"}
        => ~ENABLED (\E id \in SecretIds : GetSecretString(id))
    /\ pc = "fetching" <=> inflight = <<ReqId>>

C11_Witness ==
    /\ pc = "fetching"
    /\ inflight = <<ReqId>>
    /\ ~builder.force_refresh /\ WasResident
    /\ pre.map[ReqId].ttl < sentAt

\* C12: the value stored under a resident id is the value returned by the last
\* successful remote fetch completed for that id.
C12_StoredIsLastFetched ==
    /\ DOMAIN lastFetch = Keys(cache)
    /\ \A k \in Keys(cache) : cache.map[k].value = lastFetch[k].value

\* the second successful refresh of an expired entry has replaced the first
C12_Witness ==
    /\ SendReturned /\ result.kind = "Ok" /\ result.source = "remote"
    /\ ~builder.force_refresh /\ WasResident
    /\ Cardinality(Keys(pre)) = 2
    /\ pre.map[ReqId].value # result.value
    /\ lastFetch[ReqId].value = result.value

\* C13 as claimed: a send() cancelled while its fetch is in flight leaves the
\* store as it was before the send(), the least-recently-used order included.
C13_CancelLeavesStoreUntouched ==
    SendCancelled => cache = pre

\* C13: a send() cancelled while its fetch is in flight leaves the resident
\* ids, their values and their expiry instants as they were before the send(),
\* and the least-recently-used order too except that a plain send() for a
\* resident id has made that id the most recently used; this is the state a
\* failed send() leaves.
C13_CancelKeepsEntries ==
    SendCancelled
    => /\ cache.cap = pre.cap
       /\ cache.map = pre.map
       /\ cache.order = IF ~builder.force_refresh /\ WasResident
                        THEN <<ReqId>> \o Without(pre.order, ReqId)
                        ELSE pre.order
       /\ calls = 1
       /\ inflight = <<>>

C13_Witness ==
    /\ SendCancelled
    /\ ~builder.force_refresh /\ WasResident
    /\ cache.order # pre.order
    /\ now > sentAt

\* C14: a value returned from the store was returned by a successful remote
\* fetch for the same id that completed at most cache_item_ttl before the
\* send(), and the expiry of the entry is that fetch's clock + cache_item_ttl.
C14_StalenessBounded ==
    /\ \A k \in Keys(cache) :
          /\ k \in DOMAIN lastFetch
          /\ cache.map[k].ttl = lastFetch[k].at + config.cache_item_ttl
    /\ (SendReturned /\ result.source = "cache")
        => /\ result.value = lastFetch[ReqId].value
           /\ lastFetch[ReqId].at <= sentAt
           /\ sentAt - lastFetch[ReqId].at <= config.cache_item_ttl

C14_Witness ==
    /\ SendReturned /\ result.source = "cache"
    /\ config.cache_item_ttl = 1
    /\ sentAt - lastFetch[ReqId].at = 1

\* C15: a new configuration has max_cache_size 1024, cache_item_ttl one hour
\* and version_stage "AWSCURRENT", and after any calls of the setters each
\* field holds the last value set for it, or its default if it was never set.
C15_ConfigHoldsLastSet ==
    /\ config.version_stage = "AWSCURRENT"
    /\ pc = "config"
        => /\ config.max_cache_size =
                 IF lastSet.max_cache_size = -1 THEN 1024
                 ELSE lastSet.max_cache_size
           /\ config.cache_item_ttl =
                 IF lastSet.cache_item_ttl = -1 THEN 1
                 ELSE lastSet.cache_item_ttl

C15_Witness ==
    /\ pc = "config"
    /\ lastSet = [max_cache_size |-> 2, cache_item_ttl |-> 0]
    /\ config = [max_cache_size |-> 2, cache_item_ttl |-> 0,
                 version_stage |-> "AWSCURRENT"]

\* C16: a send() served from the cache leaves the resident ids, every value
\* and every expiry instant as they were and makes the requested id the most
\* recently used.
C16_HitOnlyPromotes ==
    (SendReturned /\ result.source = "cache")
    => /\ cache.cap = pre.cap
       /\ cache.map = pre.map
       /\ cache.order = <<ReqId>> \o Without(pre.order, ReqId)
       /\ lastFetch[ReqId].at + config.cache_item_ttl = cache.map[ReqId].ttl

C16_Witness ==
    /\ SendReturned /\ result.source = "cache"
    /\ Len(pre.order) = 2
    /\ pre.order[2] = ReqId
    /\ cache.order[1] = ReqId
    /\ sentAt > lastFetch[ReqId].at

\* C17: an id leaves the store only through a send() that is served from the
\* remote for another id that was not resident while the store was full; a
\* successful refresh of a resident id evicts nothing, also when the store is
\* full.
C17_EvictionOnlyByNewIdWhenFull ==
    /\ Evicted # {}
        => /\ SendReturned /\ result.kind = "Ok" /\ result.source = "remote"
           /\ ~WasResident
           /\ ReqId \notin Evicted
           /\ Cardinality(Keys(pre)) = MaxEntries
           /\ Cardinality(Evicted) = 1
    /\ (SendStarted /\ WasResident) => Keys(cache) = Keys(pre)

C17_Witness ==
    /\ SendReturned /\ result.kind = "Ok" /\ result.source = "remote"
    /\ WasResident
    /\ Cardinality(Keys(pre)) = MaxEntries
    /\ MaxEntries = 2
    /\ pre.order[2] = ReqId
    /\ Keys(cache) = Keys(pre)

\* C18: entries are created only by a successful remote fetch and destroyed
\* only by LRU eviction or by being overwritten on a refresh of the same id;
\* the passing of time removes nothing, so an expired entry stays resident
\* and counts against the capacity.
C18_OkCompletion ==
    pc = "fetching" /\ pc' = "built" /\ result'.kind = "Ok"

C18_Step ==
    /\ \A k \in Keys(cache') \ Keys(cache) :
          C18_OkCompletion /\ k = ReqId
    /\ \A k \in Keys(cache) \ Keys(cache') :
          /\ C18_OkCompletion
          /\ k # ReqId /\ ReqId \notin Keys(cache)
          /\ Cardinality(Keys(cache)) = cache.cap
          /\ k = cache.order[Len(cache.order)]
    /\ \A k \in Keys(cache) \cap Keys(cache') :
          cache'.map[k] # cache.map[k] => C18_OkCompletion /\ k = ReqId
    /\ now' # now => cache' = cache
    /\ Cardinality(Keys(cache')) = Len(cache'.order)

C18_LifecycleOfEntries == [][C18_Step]_vars

C18_Witness ==
    /\ SendReturned /\ result.kind = "Ok"
    /\ Evicted # {}
    /\ \A e \in Evicted : pre.map[e].ttl >= now
    /\ \E k \in Keys(cache) \ {ReqId} : now > cache.map[k].ttl
    /\ Cardinality(Keys(cache)) = MaxEntries

\* C19: a send() for one id never changes the value or the expiry stored
\* under another id; it can only evict at most one other id, and the remote
\* is called with the requested id and the configured version_stage.
C19_OtherIdsUntouched ==
    builder # NoBuilder
    => /\ \A k \in (Keys(pre) \cap Keys(cache)) \ {ReqId} :
             cache.map[k] = pre.map[k]
       /\ Keys(cache) \subseteq Keys(pre) \cup {ReqId}
       /\ Cardinality(Keys(pre) \ Keys(cache)) <= 1
       /\ calls = 1 => /\ remoteReq.secret_id = builder.secret_id
                       /\ remoteReq.version_stage = config.version_stage

C19_Witness ==
    /\ SendReturned /\ result.kind = "Ok" /\ result.source = "remote"
    /\ Evicted # {}
    /\ \E k \in (Keys(pre) \cap Keys(cache)) \ {ReqId} :
          /\ cache.map[k] = pre.map[k]
          /\ cache.map[k].value # result.value
    /\ remoteReq.secret_id = ReqId
    /\ remoteReq.version_stage = "AWSCURRENT"

\* C20: constructing an entry has no error condition for any TTL of the
\* type and any clock reading: the expiry is now + ttl without overflow or
\* wrap-around, so an entry with a larger TTL never expires earlier than one
\* with a smaller TTL made at the same instant.
C20_ConstructNeverOverflows ==
    probe.stage # "input"
    => /\ probe.stage = "made"
       /\ probe.small_item.ttl = probe.clock + probe.small
       /\ probe.large_item.ttl = probe.clock + probe.large
       /\ \A u \in probe.clock..U128Max :
             IsExpired(probe.large_item, u) => IsExpired(probe.small_item, u)

====
